---- MODULE Spec2Model ----
(***************************************************************************)
(* Model of script/graceful_shutdown.py: the command-line tool that asks   *)
(* the conference focus to shut down gracefully, polls its colibri stats   *)
(* until no conference is left, disconnects and exits with exitCode.       *)
(*                                                                         *)
(* Two threads are modelled: the main thread (option checks, connect,      *)
(* process(block=True), exit(exitCode)) and the session_start handler      *)
(* thread running FocusShutdownUserBot.shutdown_focus.                     *)
(***************************************************************************)
EXTENDS Integers, Sequences, FiniteSets, TLC

\* ------------------------------------------------------------- bounds ----
\* Cap on the number of stats requests of one run (the loop is unbounded).
MaxPolls == 3
\* Longest sequence of <stat> elements of one stats response.
MaxStats == 2

\* ------------------------------------------------------ Python values ----
\* A Python value is its type together with its str(): values of different
\* types never compare equal ('0' == 0 and '0' == -1 are both False).
PyStr(s) == [type |-> "str", repr |-> s]
PyInt(s) == [type |-> "int", repr |-> s]
PyNone == [type |-> "NoneType", repr |-> "None"]

\* Attribute values of the <stat> elements a peer may send; an attribute
\* that is missing reads as None.
StatNames == {PyStr("conferences"), PyStr("threads"), PyNone}
StatValues == {PyStr("0"), PyStr("5"), PyStr("00"), PyNone}
StatElems == [name : StatNames, value : StatValues]

RECURSIVE SeqsUpTo(_, _)
SeqsUpTo(S, n) ==
    IF n = 0 THEN {<<>>}
    ELSE LET shorter == SeqsUpTo(S, n - 1)
         IN  shorter \cup {Append(s, e) : s \in {t \in shorter : Len(t) = n - 1}, e \in S}

\* The payloads of the stats responses: every sequence of stat elements.
StatsPayloads == SeqsUpTo(StatElems, MaxStats)

\* Slip: 'return -1' indented into the for loop, so that only the first
\* stat element is ever looked at.
get_conferencesFirstOnly(stats_xml) ==
    IF stats_xml = <<>> THEN PyInt("-1")
    ELSE IF Head(stats_xml).name = PyStr("conferences")
         THEN Head(stats_xml).value
         ELSE PyInt("-1")

\* get_conferences: the value of the first stat named 'conferences', the
\* integer -1 when there is none.
RECURSIVE get_conferences(_)
get_conferences(stats_xml) ==
    IF stats_xml = <<>> THEN PyInt("-1")
    ELSE IF Head(stats_xml).name = PyStr("conferences")
         THEN Head(stats_xml).value
         ELSE get_conferences(Tail(stats_xml))

\* Slip: a missing counter (-1) is taken for "nothing left".
LoopExitLoose(conf_count) ==
    conf_count = PyStr("0") \/ conf_count = PyInt("-1")

\* Slip: the count is compared with the integer 0, which no attribute
\* string ever equals.
LoopExitInt(conf_count) == conf_count = PyInt("0")

\* The test that leaves the polling loop: conf_count == '0'.
LoopExit(conf_count) == conf_count = PyStr("0")

\* ------------------------------------------------------------- errors ----
\* A StanzaError carries the error type and the error condition.
ErrorTypes == {"wait", "cancel", "auth"}
ErrorConditions == {"service-unavailable", "not-authorized", "internal-server-error"}
StanzaErrors == [etype : ErrorTypes, condition : ErrorConditions]
NoError == [etype |-> "", condition |-> ""]

\* Slip: 'or' instead of 'and' between the two excepted categories.
IsFatalEither(accepted, err) ==
    /\ ~accepted
    /\ (err.etype # "wait" \/ err.condition # "service-unavailable")

\* Slip: the shutdown_accepted test is left out.
IsFatalIgnoringAccepted(accepted, err) ==
    /\ err.etype # "wait"
    /\ err.condition # "service-unavailable"

\* The condition under which the except block sets exitCode = 1.
IsFatal(accepted, err) ==
    /\ ~accepted
    /\ err.etype # "wait"
    /\ err.condition # "service-unavailable"

\* The type attribute of a response iq that send() returns (an iq of type
\* 'error' is raised, not returned).
RespTypes == {"result", "other"}
\* Slip: the type of the response is not looked at.
IsAcceptedAny(respType) == TRUE
IsAccepted(respType) == respType = "result"

\* ------------------------------------------------------------ options ----
\* The two values of the global exitCode: 0 - focus shutdown OK,
\* 1 - unexpected error occurred.
ExitOK == 0
ExitError == 1

\* Slip: the global starts as "error".
InitialExitCodeWrong == ExitError
\* exitCode = 0 at module level.
InitialExitCode == ExitOK

RequiredOpts == {"server", "jid", "password", "focus"}

\* -------------------------------------------------------------- state ----
VARIABLES
    opts,             \* the required options given on the command line
    mpc,              \* position of the main thread
    connectAttempts,  \* number of calls of xmpp.connect
    connectResult,    \* history: "none", then what xmpp.connect returned:
                      \* "connected" or "failed"
    processExit,      \* <<>> while running, <<code>> once exit(code) ran
    exitCode,         \* the global exitCode
    pc,               \* position of the session_start handler thread
    shutdown_accepted,\* local of shutdown_focus
    error,            \* the StanzaError caught, NoError before
    stats,            \* the payload get_conferences is applied to when the
                      \* function is exercised on its own; in a run of the
                      \* tool the payload is read once, within the step that
                      \* receives it, and is not kept
    conf_count,       \* local of shutdown_focus: last extracted count
    outstanding,      \* requests sent and neither answered nor failed
    shutdownOutcome,  \* history: "none", then the type of the response to the
                      \* shutdown request, or "error" when send() raised
    counts,           \* history: the counts extracted from the stats responses
    log               \* history: requests sent, sleeps, disconnects, in order

vars == <<opts, mpc, connectAttempts, connectResult, processExit, exitCode, pc,
          shutdown_accepted, error, stats, conf_count, outstanding,
          shutdownOutcome, counts, log>>

mainVars == <<opts, mpc, connectAttempts, connectResult, processExit>>
handlerVars == <<pc, shutdown_accepted, error, stats, conf_count, outstanding,
                 shutdownOutcome, counts, log>>

RECURSIVE NumEvents(_, _)
NumEvents(l, e) ==
    IF l = <<>> THEN 0
    ELSE (IF Head(l) = e THEN 1 ELSE 0) + NumEvents(Tail(l), e)

ShutdownsSent == NumEvents(log, "shutdown")
StatsSent == NumEvents(log, "stats")
Sleeps == NumEvents(log, "sleep")
Disconnects == NumEvents(log, "disconnect")

Init ==
    /\ opts \in SUBSET RequiredOpts
    /\ mpc = "check_opts"
    /\ connectAttempts = 0
    /\ connectResult = "none"
    /\ processExit = <<>>
    /\ exitCode = InitialExitCode
    /\ pc = "not_started"
    /\ shutdown_accepted = FALSE
    /\ error = NoError
    /\ stats = <<>>
    /\ conf_count = PyNone
    /\ outstanding = 0
    /\ shutdownOutcome = "none"
    /\ counts = <<>>
    /\ log = <<>>

\* -------------------------------------------------------- main thread ----
\* Slip: the check of opts.focus is left out.
CheckOptionsWithoutFocus ==
    /\ mpc = "check_opts"
    /\ IF (RequiredOpts \ {"focus"}) \subseteq opts
       THEN /\ mpc' = "connect"
            /\ processExit' = processExit
       ELSE /\ mpc' = "exited"
            /\ processExit' = <<ExitError>>
    /\ UNCHANGED <<opts, connectAttempts, connectResult, exitCode>>
    /\ UNCHANGED handlerVars

\* The four option checks: the first missing option ends the process with 1.
CheckOptions ==
    /\ mpc = "check_opts"
    /\ IF RequiredOpts \subseteq opts
       THEN /\ mpc' = "connect"
            /\ processExit' = processExit
       ELSE /\ mpc' = "exited"
            /\ processExit' = <<ExitError>>
    /\ UNCHANGED <<opts, connectAttempts, connectResult, exitCode>>
    /\ UNCHANGED handlerVars

\* Slip: process(block=True) is entered whatever xmpp.connect returned.
ConnectIgnoringResult ==
    /\ mpc = "connect"
    /\ connectAttempts' = connectAttempts + 1
    /\ \E ok \in BOOLEAN :
          /\ connectResult' = IF ok THEN "connected" ELSE "failed"
          /\ mpc' = "process"
    /\ UNCHANGED <<opts, processExit, exitCode>>
    /\ UNCHANGED handlerVars

\* xmpp.connect(...): on success the main thread enters process(block=True),
\* on failure it logs and goes on to exit(exitCode).
Connect ==
    /\ mpc = "connect"
    /\ connectAttempts' = connectAttempts + 1
    /\ \E ok \in BOOLEAN :
          /\ connectResult' = IF ok THEN "connected" ELSE "failed"
          /\ mpc' = IF ok THEN "process" ELSE "exit"
    /\ UNCHANGED <<opts, processExit, exitCode>>
    /\ UNCHANGED handlerVars

\* Slip: process(block=False): the main thread does not wait for the
\* disconnect.
ProcessReturnsAtOnce ==
    /\ mpc = "process"
    /\ mpc' = "exit"
    /\ UNCHANGED <<opts, connectAttempts, connectResult, processExit, exitCode>>
    /\ UNCHANGED handlerVars

\* process(block=True) returns once the connection has been disconnected.
ProcessReturns ==
    /\ mpc = "process"
    /\ Disconnects > 0
    /\ mpc' = "exit"
    /\ UNCHANGED <<opts, connectAttempts, connectResult, processExit, exitCode>>
    /\ UNCHANGED handlerVars

\* exit(exitCode): the single read of the global.
Exit ==
    /\ mpc = "exit"
    /\ processExit' = <<exitCode>>
    /\ mpc' = "exited"
    /\ UNCHANGED <<opts, connectAttempts, connectResult, exitCode>>
    /\ UNCHANGED handlerVars

\* ----------------------------------------------------- handler thread ----
\* The session_start event starts shutdown_focus on its own thread while
\* the main thread is inside process(): shutdown_accepted = False, iq built.
SessionStart ==
    /\ mpc = "process"
    /\ pc = "not_started"
    /\ pc' = "send_shutdown"
    /\ shutdown_accepted' = FALSE
    /\ UNCHANGED <<error, conf_count, outstanding, shutdownOutcome, counts, log>>
    /\ UNCHANGED <<exitCode>>
    /\ UNCHANGED stats
    /\ UNCHANGED mainVars

\* Slip: iq.send(block=False): the request goes out and the handler goes
\* on to poll without waiting for the answer.
SendShutdownWithoutWaiting ==
    /\ pc = "send_shutdown"
    /\ log' = Append(log, "shutdown")
    /\ outstanding' = outstanding + 1
    /\ shutdown_accepted' = TRUE
    /\ shutdownOutcome' = "result"
    /\ pc' = "poll"
    /\ UNCHANGED <<error, conf_count, counts>>
    /\ UNCHANGED <<exitCode>>
    /\ UNCHANGED stats
    /\ UNCHANGED mainVars

\* iq.send(): the shutdown request goes out and the thread blocks.
SendShutdown ==
    /\ pc = "send_shutdown"
    /\ log' = Append(log, "shutdown")
    /\ outstanding' = outstanding + 1
    /\ pc' = "await_shutdown"
    /\ UNCHANGED <<shutdown_accepted, error, conf_count, shutdownOutcome, counts>>
    /\ UNCHANGED <<exitCode>>
    /\ UNCHANGED stats
    /\ UNCHANGED mainVars

\* iq.send() returns a response: polling is entered when its type is
\* 'result'; any other type falls out of the try block.
ShutdownResponse ==
    /\ pc = "await_shutdown"
    /\ outstanding' = outstanding - 1
    /\ \E t \in RespTypes :
          /\ shutdownOutcome' = t
          /\ IF IsAccepted(t)
             THEN /\ shutdown_accepted' = TRUE
                  /\ pc' = "poll"
             ELSE /\ shutdown_accepted' = shutdown_accepted
                  /\ pc' = "done"
    /\ UNCHANGED <<error, conf_count, counts, log>>
    /\ UNCHANGED <<exitCode>>
    /\ UNCHANGED stats
    /\ UNCHANGED mainVars

\* iq.send() raises a StanzaError: control goes to the except block.
ShutdownError ==
    /\ pc = "await_shutdown"
    /\ outstanding' = outstanding - 1
    /\ \E e \in StanzaErrors : error' = e
    /\ shutdownOutcome' = "error"
    /\ pc' = "except"
    /\ UNCHANGED <<shutdown_accepted, conf_count, counts, log>>
    /\ UNCHANGED <<exitCode>>
    /\ UNCHANGED stats
    /\ UNCHANGED mainVars

\* One iteration begins: create_request_stats_iq() and stats_iq.send().
SendStats ==
    /\ pc = "poll"
    /\ StatsSent < MaxPolls
    /\ log' = Append(log, "stats")
    /\ outstanding' = outstanding + 1
    /\ pc' = "await_stats"
    /\ UNCHANGED <<shutdown_accepted, error, conf_count, shutdownOutcome, counts>>
    /\ UNCHANGED <<exitCode>>
    /\ UNCHANGED stats
    /\ UNCHANGED mainVars

\* stats_iq.send() returns: the count is extracted and compared with '0'.
StatsResponse ==
    /\ pc = "await_stats"
    /\ outstanding' = outstanding - 1
    /\ \E payload \in StatsPayloads :
          /\ conf_count' = get_conferences(payload)
          /\ counts' = Append(counts, conf_count')
          /\ pc' = IF LoopExit(conf_count') THEN "after_loop" ELSE "sleep"
    /\ UNCHANGED <<shutdown_accepted, error, shutdownOutcome, log>>
    /\ UNCHANGED <<exitCode>>
    /\ UNCHANGED stats
    /\ UNCHANGED mainVars

\* Slip: the error of a stats request is swallowed and polling goes on.
StatsErrorSwallowed ==
    /\ pc = "await_stats"
    /\ outstanding' = outstanding - 1
    /\ \E e \in StanzaErrors : error' = e
    /\ pc' = "sleep"
    /\ UNCHANGED <<shutdown_accepted, conf_count, shutdownOutcome, counts, log>>
    /\ UNCHANGED <<exitCode>>
    /\ UNCHANGED stats
    /\ UNCHANGED mainVars

\* stats_iq.send() raises a StanzaError inside the same try block.
StatsError ==
    /\ pc = "await_stats"
    /\ outstanding' = outstanding - 1
    /\ \E e \in StanzaErrors : error' = e
    /\ pc' = "except"
    /\ UNCHANGED <<shutdown_accepted, conf_count, shutdownOutcome, counts, log>>
    /\ UNCHANGED <<exitCode>>
    /\ UNCHANGED stats
    /\ UNCHANGED mainVars

\* time.sleep(10), then the next iteration.
Sleep ==
    /\ pc = "sleep"
    /\ log' = Append(log, "sleep")
    /\ pc' = "poll"
    /\ UNCHANGED <<shutdown_accepted, error, conf_count, outstanding, shutdownOutcome, counts>>
    /\ UNCHANGED <<exitCode>>
    /\ UNCHANGED stats
    /\ UNCHANGED mainVars

\* Slip: the disconnect sits inside the loop and the loop is not left.
DisconnectInsideLoop ==
    /\ pc = "after_loop"
    /\ log' = Append(log, "disconnect")
    /\ pc' = "poll"
    /\ UNCHANGED <<shutdown_accepted, error, conf_count, outstanding, shutdownOutcome, counts>>
    /\ UNCHANGED <<exitCode>>
    /\ UNCHANGED stats
    /\ UNCHANGED mainVars

\* Slip: the disconnect after the loop is forgotten.
ReturnWithoutDisconnect ==
    /\ pc = "after_loop"
    /\ pc' = "done"
    /\ UNCHANGED <<shutdown_accepted, error, conf_count, outstanding, shutdownOutcome, counts, log>>
    /\ UNCHANGED <<exitCode>>
    /\ UNCHANGED stats
    /\ UNCHANGED mainVars

\* After the loop: self.disconnect(wait=True), end of the try block.
DisconnectAfterLoop ==
    /\ pc = "after_loop"
    /\ log' = Append(log, "disconnect")
    /\ pc' = "done"
    /\ UNCHANGED <<shutdown_accepted, error, conf_count, outstanding, shutdownOutcome, counts>>
    /\ UNCHANGED <<exitCode>>
    /\ UNCHANGED stats
    /\ UNCHANGED mainVars

\* Slip: a rejected shutdown request of type 'wait' is sent again.
ClassifyErrorRetry ==
    /\ pc = "except"
    /\ exitCode' = IF IsFatal(shutdown_accepted, error) THEN ExitError ELSE exitCode
    /\ pc' = IF ~shutdown_accepted /\ error.etype = "wait"
             THEN "send_shutdown" ELSE "except_disconnect"
    /\ UNCHANGED <<shutdown_accepted, error, conf_count, outstanding, shutdownOutcome, counts, log>>
    /\ UNCHANGED stats
    /\ UNCHANGED mainVars

\* The except block up to the disconnect: exitCode = 1 for a fatal error.
ClassifyError ==
    /\ pc = "except"
    /\ exitCode' = IF IsFatal(shutdown_accepted, error) THEN ExitError ELSE exitCode
    /\ pc' = "except_disconnect"
    /\ UNCHANGED <<shutdown_accepted, error, conf_count, outstanding, shutdownOutcome, counts, log>>
    /\ UNCHANGED stats
    /\ UNCHANGED mainVars

\* Slip: the disconnect is indented into the 'if' of the except block.
DisconnectOnlyIfFatal ==
    /\ pc = "except_disconnect"
    /\ log' = IF IsFatal(shutdown_accepted, error)
              THEN Append(log, "disconnect") ELSE log
    /\ pc' = "done"
    /\ UNCHANGED <<shutdown_accepted, error, conf_count, outstanding, shutdownOutcome, counts>>
    /\ UNCHANGED <<exitCode>>
    /\ UNCHANGED stats
    /\ UNCHANGED mainVars

\* The last statement of the except block: self.disconnect(wait=True).
DisconnectAfterError ==
    /\ pc = "except_disconnect"
    /\ log' = Append(log, "disconnect")
    /\ pc' = "done"
    /\ UNCHANGED <<shutdown_accepted, error, conf_count, outstanding, shutdownOutcome, counts>>
    /\ UNCHANGED <<exitCode>>
    /\ UNCHANGED stats
    /\ UNCHANGED mainVars

Next ==
    \/ CheckOptions
    \/ Connect
    \/ ProcessReturns
    \/ Exit
    \/ SessionStart
    \/ SendShutdown
    \/ ShutdownResponse
    \/ ShutdownError
    \/ SendStats
    \/ StatsResponse
    \/ StatsError
    \/ Sleep
    \/ DisconnectAfterLoop
    \/ ClassifyError
    \/ DisconnectAfterError

Spec == Init /\ [][Next]_vars

\* Both threads keep running: a statement of the program that can be
\* executed is executed eventually.  Nothing is assumed of the peer: a
\* response may never arrive (no timeout is set on the requests).
ProgramSteps ==
    /\ WF_vars(CheckOptions)
    /\ WF_vars(Connect)
    /\ WF_vars(ProcessReturns)
    /\ WF_vars(Exit)
    /\ WF_vars(SendShutdown)
    /\ WF_vars(SendStats)
    /\ WF_vars(Sleep)
    /\ WF_vars(DisconnectAfterLoop)
    /\ WF_vars(ClassifyError)
    /\ WF_vars(DisconnectAfterError)

FairSpec == Spec /\ ProgramSteps

\* ------------------------------------- get_conferences on its own ----
\* get_conferences is a pure function: it is applied to every payload, and
\* to every reordering of a payload, outside any run of the tool.
PermsOf(s) == {[i \in 1..Len(s) |-> s[p[i]]] : p \in Permutations(1..Len(s))}

InitGetConferences ==
    /\ opts = RequiredOpts
    /\ mpc = "process"
    /\ connectAttempts = 1
    /\ connectResult = "connected"
    /\ processExit = <<>>
    /\ exitCode = InitialExitCode
    /\ pc = "get_conferences"
    /\ shutdown_accepted = TRUE
    /\ error = NoError
    /\ stats \in StatsPayloads
    /\ conf_count = PyNone
    /\ outstanding = 0
    /\ shutdownOutcome = "result"
    /\ counts = <<>>
    /\ log = <<>>

\* conf_count = get_conferences(stats)
CallGetConferences ==
    /\ pc = "get_conferences"
    /\ conf_count' = get_conferences(stats)
    /\ pc' = "returned"
    /\ UNCHANGED <<shutdown_accepted, error, stats, outstanding, shutdownOutcome, counts, log>>
    /\ UNCHANGED <<exitCode>>
    /\ UNCHANGED mainVars

\* The same stat elements arrive in another order.
Reorder ==
    /\ pc = "returned"
    /\ stats' \in PermsOf(stats) \ {stats}
    /\ pc' = "get_conferences"
    /\ UNCHANGED <<shutdown_accepted, error, conf_count, outstanding, shutdownOutcome, counts, log>>
    /\ UNCHANGED <<exitCode>>
    /\ UNCHANGED mainVars

NextGetConferences ==
    \/ CallGetConferences
    \/ Reorder

SpecGetConferences == InitGetConferences /\ [][NextGetConferences]_vars

TypeOK ==
    /\ opts \subseteq RequiredOpts
    /\ mpc \in {"check_opts", "connect", "process", "exit", "exited"}
    /\ connectAttempts \in 0..1
    /\ connectResult \in {"none", "connected", "failed"}
    /\ processExit \in {<<>>, <<ExitOK>>, <<ExitError>>}
    /\ exitCode \in {ExitOK, ExitError}
    /\ pc \in {"not_started", "send_shutdown", "await_shutdown", "poll",
               "await_stats", "sleep", "after_loop", "except",
               "except_disconnect", "done"}
    /\ shutdown_accepted \in BOOLEAN
    /\ error \in StanzaErrors \cup {NoError}
    /\ outstanding \in 0..1
    /\ shutdownOutcome \in {"none", "result", "other", "error"}
    /\ Len(counts) <= MaxPolls

\* ------------------------------------------------------------- claims ----
Last(s) == s[Len(s)]
InLoop == pc \in {"poll", "await_stats", "sleep"}
BenignError(err) == err.etype = "wait" \/ err.condition = "service-unavailable"

\* C1: when shutdown_focus has returned after an accepted shutdown request
\* or after one rejected with an error (benign or fatal),
\* disconnect(wait=True) has been invoked exactly once; it is never invoked
\* twice on any path.
C1_DisconnectExactlyOnce ==
    /\ Disconnects <= 1
    /\ (pc = "done" /\ shutdownOutcome \in {"result", "error"}) => Disconnects = 1
    /\ pc # "done" => Disconnects = 0

C1_Witness ==
    /\ pc = "done"
    /\ shutdownOutcome = "error"
    /\ BenignError(error)
    /\ Disconnects = 1

C2_StateAmended ==
    shutdown_accepted =>
        /\ \A i \in 1..(Len(counts) - 1) : counts[i] # PyStr("0")
        /\ (counts # <<>> /\ Last(counts) = PyStr("0")) => pc \in {"after_loop", "done"}
        /\ pc = "after_loop" => (counts # <<>> /\ Last(counts) = PyStr("0"))
        /\ ~InLoop =>
              \/ counts # <<>> /\ Last(counts) = PyStr("0") /\ error = NoError
              \/ error # NoError /\ StatsSent = Len(counts) + 1
        /\ pc = "sleep" => (counts # <<>> /\ Last(counts) # PyStr("0") /\ Sleeps = Len(counts) - 1)
        /\ pc = "poll" => (Sleeps = Len(counts) /\ StatsSent = Len(counts))

C2_StepAmended ==
    /\ pc = "sleep" => pc' = "poll"
    /\ pc = "poll" => pc' = "await_stats"
    /\ (pc = "await_stats" /\ counts' # counts /\ Last(counts') # PyStr("0")) => pc' = "sleep"

C4_ExitStatusByCategory ==
    shutdownOutcome = "error" =>
        LET expected == IF BenignError(error) THEN ExitOK ELSE ExitError
        IN  /\ pc \in {"except_disconnect", "done"} => exitCode = expected
            /\ processExit # <<>> => processExit = <<expected>>

C4_Witness ==
    /\ shutdownOutcome = "error"
    /\ error = [etype |-> "wait", condition |-> "not-authorized"]
    /\ processExit = <<ExitOK>>

\* C5: the exit status is failure only after the shutdown request itself
\* failed with an error outside the two excepted categories; once the
\* request was accepted the status stays success, stats errors included.
C5_FailureOnlyFromShutdownError ==
    /\ shutdown_accepted =>
          /\ exitCode = ExitOK
          /\ processExit # <<>> => processExit = <<ExitOK>>
    /\ exitCode = ExitError =>
          /\ shutdownOutcome = "error"
          /\ ~BenignError(error)

C5_Witness ==
    /\ shutdown_accepted
    /\ error = [etype |-> "auth", condition |-> "not-authorized"]
    /\ processExit = <<ExitOK>>

\* C6: exitCode is success initially, and every change of it is a change
\* from success to failure, so it changes at most once.
C6_Step == exitCode' # exitCode => (exitCode = ExitOK /\ exitCode' = ExitError)

C6_ExitStatusMonotonic == exitCode = ExitOK /\ [][C6_Step]_vars

C6_Witness ==
    /\ exitCode = ExitError
    /\ mpc = "exited"

\* C7: a stats request is sent only after the shutdown request was sent
\* and answered with a 'result' response; after a rejection with an error
\* no stats request is sent at all.
C7_PollingOnlyOnAcceptance ==
    /\ StatsSent > 0 =>
          /\ Head(log) = "shutdown"
          /\ shutdownOutcome = "result"
    /\ shutdownOutcome = "error" => StatsSent = 0

C7_Witness ==
    /\ shutdownOutcome = "error"
    /\ Disconnects = 1
    /\ StatsSent = 0

\* C8: when the polls of an accepted shutdown returned k values other than
\* '0' and then '0', exactly k+1 stats requests were sent and exactly k
\* sleeps taken, one between each two consecutive polls, and the exit code
\* is 0.
ExpectedLog(k) ==
    [i \in 1..(2 * k + 2) |->
        IF i = 1 THEN "shutdown" ELSE IF i % 2 = 0 THEN "stats" ELSE "sleep"]

C8_PollsAndSleeps ==
    (/\ shutdownOutcome = "result"
     /\ counts # <<>>
     /\ Last(counts) = PyStr("0")
     /\ \A i \in 1..(Len(counts) - 1) : counts[i] # PyStr("0")) =>
        LET k == Len(counts) - 1
        IN  /\ StatsSent = k + 1
            /\ Sleeps = k
            /\ pc \in {"after_loop", "done"}
            /\ log = IF pc = "done" THEN Append(ExpectedLog(k), "disconnect")
                     ELSE ExpectedLog(k)
            /\ exitCode = ExitOK
            /\ processExit # <<>> => processExit = <<ExitOK>>

C8_Witness ==
    /\ counts = <<PyStr("5"), PyStr("00"), PyStr("0")>>
    /\ Sleeps = 2
    /\ processExit = <<ExitOK>>

\* C9: the shutdown request is sent once per run: never a second time,
\* whatever the answer to the first was.
C9_ShutdownSentOnce ==
    /\ ShutdownsSent <= 1
    /\ pc \notin {"not_started", "send_shutdown"} => ShutdownsSent = 1

C9_Witness ==
    /\ shutdownOutcome = "error"
    /\ error.etype = "wait"
    /\ pc = "done"
    /\ ShutdownsSent = 1

\* C10: once disconnect has been invoked, no step sends a shutdown request
\* or a stats request.
C10_Step ==
    Disconnects > 0 =>
        /\ NumEvents(log', "shutdown") = ShutdownsSent
        /\ NumEvents(log', "stats") = StatsSent

C10_NoRequestAfterDisconnect == [][C10_Step]_vars

C10_Witness ==
    /\ Disconnects = 1
    /\ StatsSent > 0
    /\ mpc = "exited"

\* The values carried by the stat elements named 'conferences'.
ConfValues(s) ==
    {s[i].value : i \in {j \in 1..Len(s) : s[j].name = PyStr("conferences")}}

\* C11 as stated: for every stats payload, repeated names included,
\* get_conferences returns the same result for every permutation of it.
C11_OrderIndependent ==
    pc = "returned" => \A q \in PermsOf(stats) : get_conferences(q) = conf_count

\* C11 as amended: for every stats payload whose elements named
\* 'conferences' all carry the same value (in particular when there is at
\* most one), get_conferences returns the same result for every
\* permutation; it returns the sentinel -1 when no element is named
\* 'conferences'.
C11_OrderIndependentUnlessConflict ==
    pc = "returned" =>
        /\ Cardinality(ConfValues(stats)) <= 1 =>
              \A q \in PermsOf(stats) : get_conferences(q) = conf_count
        /\ ConfValues(stats) = {} => conf_count = PyInt("-1")
        /\ ConfValues(stats) # {} => conf_count \in ConfValues(stats)

C11_Witness ==
    /\ pc = "returned"
    /\ Len(stats) = 2
    /\ stats[1].name = PyStr("threads")
    /\ stats[2] = [name |-> PyStr("conferences"), value |-> PyStr("5")]
    /\ conf_count = PyStr("5")

\* C12: when one of the options server, jid, password, focus is missing,
\* the process exits with code 1, and no connection is attempted and no
\* request sent.
C12_MissingOptionExits1 ==
    ~(RequiredOpts \subseteq opts) =>
        /\ connectAttempts = 0
        /\ log = <<>>
        /\ pc = "not_started"
        /\ mpc \in {"check_opts", "exited"}
        /\ mpc = "exited" => processExit = <<ExitError>>

C12_Witness ==
    /\ opts = RequiredOpts \ {"focus"}
    /\ mpc = "exited"
    /\ processExit = <<ExitError>>

ZeroPolled == shutdown_accepted /\ counts # <<>> /\ Last(counts) = PyStr("0")

NoZeroPolled ==
    /\ shutdown_accepted
    /\ error = NoError
    /\ \A i \in 1..Len(counts) : counts[i] # PyStr("0")

DrainedAndExited ==
    /\ pc = "done"
    /\ Disconnects = 1
    /\ mpc = "exited"
    /\ processExit = <<ExitOK>>

C14_DrainLiveness ==
    /\ ZeroPolled ~> DrainedAndExited
    /\ [](NoZeroPolled => (InLoop /\ Disconnects = 0 /\ processExit = <<>>))

C14_Witness ==
    /\ ZeroPolled
    /\ Len(counts) = 2
    /\ DrainedAndExited

\* C15: at most one request is outstanding at any time, and none is
\* outstanding when disconnect is about to be invoked or has been invoked.
C15_OneRequestAtATime ==
    /\ outstanding <= 1
    /\ outstanding = 1 <=> pc \in {"await_shutdown", "await_stats"}
    /\ pc \in {"after_loop", "except_disconnect"} => outstanding = 0
    /\ Disconnects > 0 => outstanding = 0

C15_Witness ==
    /\ Disconnects = 1
    /\ outstanding = 0
    /\ ShutdownsSent = 1
    /\ StatsSent = 2

\* C16: the handler runs while the main thread is blocked in
\* process(block=True); after a fatal rejection exitCode = 1 is written
\* before the disconnect that lets the main thread go on, so that the main
\* thread reads 1 and the process exits with 1 in every interleaving.
FatalRejection == shutdownOutcome = "error" /\ ~BenignError(error)

C16_FailureNotLostToRace ==
    /\ pc \notin {"not_started", "done"} => mpc = "process"
    /\ (connectResult = "connected" /\ mpc \in {"exit", "exited"}) =>
          (pc = "done" /\ Disconnects = 1)
    /\ (FatalRejection /\ Disconnects > 0) => exitCode = ExitError
    /\ (FatalRejection /\ mpc = "exited") => processExit = <<ExitError>>

C16_Witness ==
    /\ FatalRejection
    /\ error = [etype |-> "cancel", condition |-> "internal-server-error"]
    /\ mpc = "exited"
    /\ processExit = <<ExitError>>
====
